---- MODULE Spec2Model ----
(***************************************************************************)
(* Billboard India chart scraper (billboard_scraper.py): fetch the chart   *)
(* page, extract up to 20 entries with the structural (primary) strategy,  *)
(* fall back to the text-scan strategy when fewer than 10 are found,       *)
(* render the HTML table and send it by SMTP; the process exit status      *)
(* reports the outcome.                                                    *)
(*                                                                         *)
(* Text is modelled as a sequence of characters (one-character strings),   *)
(* so that strip(), isdigit(), int(), istitle(), re.sub(r'\s+', ' ', .)    *)
(* and the LW regular expression are computed as Python computes them.     *)
(* The character "^2" stands for U+00B2 (SUPERSCRIPT TWO), a character for *)
(* which str.isdigit() is True while int() raises ValueError.              *)
(***************************************************************************)
EXTENDS Integers, Sequences, FiniteSets, TLC

(***************************************************************************)
(* Characters and the str methods the program uses                         *)
(***************************************************************************)
DecDigits == <<"0", "1", "2", "3", "4", "5", "6", "7", "8", "9">>

IsDecimalChar(c) == \E d \in 1..10 : DecDigits[d] = c

\* str.isdigit() on one character: decimal digits and digit-like characters
\* such as superscripts (Unicode Numeric_Type=Digit).
IsDigitChar(c) == IsDecimalChar(c) \/ c = "^2"

IsSpaceChar(c) == c \in {" ", "\t", "\n"}

UpperChars == {"A", "B", "C", "D", "E", "F", "G", "H", "I", "J", "K", "L", "M",
               "N", "O", "P", "Q", "R", "S", "T", "U", "V", "W", "X", "Y", "Z"}

LowerChars == {"a", "b", "c", "d", "e", "f", "g", "h", "i", "j", "k", "l", "m",
               "n", "o", "p", "q", "r", "s", "t", "u", "v", "w", "x", "y", "z"}

IsCased(c) == c \in UpperChars \/ c \in LowerChars

\* str.isdigit(): non-empty and every character is a digit character.
isdigit(s) == Len(s) > 0 /\ \A k \in 1..Len(s) : IsDigitChar(s[k])

\* int(s) succeeds on the strings the program passes to it (strings for
\* which isdigit() holds, or an environment value) iff they are decimal.
IntParses(s) == Len(s) > 0 /\ \A k \in 1..Len(s) : IsDecimalChar(s[k])

DigitVal(c) == (CHOOSE d \in 1..10 : DecDigits[d] = c) - 1

RECURSIVE int(_)
int(s) == IF Len(s) = 0 THEN 0
          ELSE 10 * int(SubSeq(s, 1, Len(s) - 1)) + DigitVal(s[Len(s)])

\* The decimal text of a natural number (how the page writes a rank).
RECURSIVE str(_)
str(n) == IF n < 10 THEN <<DecDigits[n + 1]>>
          ELSE Append(str(n \div 10), DecDigits[(n % 10) + 1])

RECURSIVE lstrip(_)
lstrip(s) == IF Len(s) > 0 /\ IsSpaceChar(s[1]) THEN lstrip(Tail(s)) ELSE s

RECURSIVE rstrip(_)
rstrip(s) == IF Len(s) > 0 /\ IsSpaceChar(s[Len(s)])
             THEN rstrip(SubSeq(s, 1, Len(s) - 1)) ELSE s

strip(s) == rstrip(lstrip(s))

\* re.sub(r'\s+', ' ', s): every maximal run of whitespace becomes one space.
RECURSIVE CollapseWs(_)
CollapseWs(s) ==
    IF Len(s) = 0 THEN s
    ELSE IF IsSpaceChar(s[1])
         THEN <<" ">> \o CollapseWs(lstrip(s))
         ELSE <<s[1]>> \o CollapseWs(Tail(s))

\* re.sub(r'\s+', ' ', s).strip()
Normalize(s) == strip(CollapseWs(s))

\* str.istitle(): at least one cased character, uppercase only after an
\* uncased character, lowercase only after a cased one.
istitle(s) ==
    /\ \E k \in 1..Len(s) : IsCased(s[k])
    /\ \A k \in 1..Len(s) :
         /\ s[k] \in UpperChars => (k = 1 \/ ~IsCased(s[k - 1]))
         /\ s[k] \in LowerChars => (k > 1 /\ IsCased(s[k - 1]))

\* any(word.istitle() for word in s.split())
AnyWordIsTitle(s) ==
    \E a \in 1..Len(s) : \E b \in a..Len(s) :
        /\ \A k \in a..b : ~IsSpaceChar(s[k])
        /\ a = 1 \/ IsSpaceChar(s[a - 1])
        /\ b = Len(s) \/ IsSpaceChar(s[b + 1])
        /\ istitle(SubSeq(s, a, b))

startswith(s, p) == Len(s) >= Len(p) /\ SubSeq(s, 1, Len(p)) = p

\* A case-insensitive pattern is a sequence of character classes;
\* Search is re.search for such a pattern.
Search(pat, s) ==
    \E k \in 0..(Len(s) - Len(pat)) : \A m \in 1..Len(pat) : s[k + m] \in pat[m]

LWPattern == <<{"L", "l"}, {"W", "w"}>>

LastWeekPattern == <<{"L", "l"}, {"A", "a"}, {"S", "s"}, {"T", "t"}, {" "},
                     {"W", "w"}, {"E", "e"}, {"E", "e"}, {"K", "k"}>>

\* re.compile(r'LW|Last Week', re.I).search(s)
MatchesLW(s) == Search(LWPattern, s) \/ Search(LastWeekPattern, s)

\* text.split('\n')
RECURSIVE SplitLines(_)
SplitLines(s) ==
    IF \A k \in 1..Len(s) : s[k] # "\n" THEN <<s>>
    ELSE LET nl == CHOOSE k \in 1..Len(s) :
                       s[k] = "\n" /\ \A m \in 1..(k - 1) : s[m] # "\n"
         IN  <<SubSeq(s, 1, nl - 1)>> \o SplitLines(SubSeq(s, nl + 1, Len(s)))

\* Texts the program compares against.
NA    == <<"N", "/", "A">>
NEW_  == <<"N", "E", "W">>
LW    == <<"L", "W">>
PEAK  == <<"P", "E", "A", "K">>
WEEKS == <<"W", "E", "E", "K", "S">>
DASH  == <<"-">>
HTTP  == <<"h", "t", "t", "p">>

NonArtistLabels == {LW, PEAK, WEEKS}

ChartTokens == {LW, PEAK, WEEKS, DASH}

(***************************************************************************)
(* The parsed document                                                     *)
(*                                                                         *)
(* A chart item is one <ul> block of the page: its span.c-label elements   *)
(* in document order (spans), its first h3.c-title if any (title, a        *)
(* sequence of length 0 or 1), the number of the item's spans that precede *)
(* the h3 (hpos) and the number that precede the start tag of the h3's     *)
(* parent element (ppos <= hpos).  matched tells whether the <ul> blocks   *)
(* carry the class o-chart-results-list-row that find_all selects.         *)
(***************************************************************************)
Min(a, b) == IF a < b THEN a ELSE b

\* soup.find_all('ul', class_='o-chart-results-list-row')
chart_rows(doc) == IF doc.matched THEN doc.items ELSE <<>>

\* The first span.c-label at or after item r of the document, if any.
RECURSIVE FirstSpanFrom(_, _)
FirstSpanFrom(items, r) ==
    IF r > Len(items) THEN <<>>
    ELSE IF Len(items[r].spans) > 0 THEN <<items[r].spans[1]>>
    ELSE FirstSpanFrom(items, r + 1)

\* elem.find_next('span', class_='c-label') for an element of item r that
\* has k of the item's spans at or before its start tag: the search runs on
\* through the rest of the document.
find_next(items, r, k) ==
    IF k < Len(items[r].spans) THEN <<items[r].spans[k + 1]>>
    ELSE FirstSpanFrom(items, r + 1)

\* The text-bearing elements of an item in document order, each with its
\* text and the number of the item's spans at or before it.
Elements(row) ==
    LET n == Len(row.spans)
        h == row.hpos
        sp(k) == [text |-> row.spans[k], upto |-> k]
    IN  [k \in 1..h |-> sp(k)]
        \o [k \in 1..Len(row.title) |-> [text |-> row.title[k], upto |-> h]]
        \o [k \in 1..(n - h) |-> sp(h + k)]

(***************************************************************************)
(* Primary strategy: scrape_billboard_india, lines 35-109                  *)
(***************************************************************************)
TopN == 20

MinPrimary == 10

\* Mutant: the slice [:20] is dropped and every row is scanned.
ScanLimit_all(rows) == Len(rows)

\* chart_rows[:20]
ScanLimit(rows) == Min(Len(rows), TopN)

\* lines 38-39: the row's first span.c-label holds a numeric text
HasRankLabel(row) == Len(row.spans) > 0 /\ isdigit(strip(row.spans[1]))

\* line 40: int() of the label raises ValueError for a non-decimal digit
LabelRaises(row) == HasRankLabel(row) /\ ~IntParses(strip(row.spans[1]))

\* Mutant: the ordinal is not advanced with the row.
OrdinalPosition_stuck(i) == 1

\* Mutant: the 0-based enumerate index is used as it is.
OrdinalPosition_zero_based(i) == i

\* line 42: enumerate index i, 0-based
OrdinalPosition(i) == i + 1

\* lines 38-42
ExtractPosition(row, i) ==
    IF HasRankLabel(row) THEN int(strip(row.spans[1])) ELSE OrdinalPosition(i)

\* lines 45-49
ExtractTitle(row) == IF Len(row.title) > 0 THEN strip(row.title[1]) ELSE NA

\* line 60
IsArtistText(t) == Len(t) > 0 /\ ~isdigit(t) /\ t \notin NonArtistLabels

\* lines 53-62: the first span whose text passes the filter
FirstScanArtist(row) ==
    LET ok == {k \in 1..Len(row.spans) : IsArtistText(strip(row.spans[k]))}
    IN  IF ok = {} THEN NA
        ELSE strip(row.spans[CHOOSE k \in ok : \A m \in ok : k <= m])

\* line 72
IsCandidateArtist(t) == Len(t) > 0 /\ ~isdigit(t)

\* lines 64-73: the next span after the start of the title's parent
SecondaryArtist(items, r) ==
    LET row  == items[r]
        next == IF Len(row.title) > 0 THEN find_next(items, r, row.ppos) ELSE <<>>
    IN  IF Len(next) > 0 /\ IsCandidateArtist(strip(next[1]))
        THEN strip(next[1]) ELSE NA

\* lines 53-73
ExtractArtist(items, r) ==
    LET first == FirstScanArtist(items[r])
    IN  IF first = NA THEN SecondaryArtist(items, r) ELSE first

\* lines 76-88: the first LW indicator followed by a span of digits
ExtractLastWeek(items, r) ==
    LET els    == Elements(items[r])
        nxt(e) == find_next(items, r, els[e].upto)
        hit    == {e \in 1..Len(els) :
                      /\ MatchesLW(els[e].text)
                      /\ Len(nxt(e)) > 0
                      /\ isdigit(strip(nxt(e)[1]))}
    IN  IF hit = {} THEN NEW_
        ELSE strip(nxt(CHOOSE e \in hit : \A m \in hit : e <= m)[1])

\* Mutant: the check of line 95 is dropped.
Discarded_never(title) == FALSE

\* line 95
Discarded(title) == title = NA \/ Len(title) = 0

\* One iteration of the loop of line 35 on row i (0-based): the entries it
\* appends, none when the row raises (lines 107-109) or is skipped (line 96).
ExtractRow(items, i) ==
    LET r     == i + 1
        row   == items[r]
        title == Normalize(ExtractTitle(row))
    IN  IF LabelRaises(row) \/ Discarded(title) THEN <<>>
        ELSE <<[Position |-> ExtractPosition(row, i),
                Song     |-> title,
                Artist   |-> Normalize(ExtractArtist(items, r)),
                LastWeek |-> ExtractLastWeek(items, r)]>>

\* line 35: the loop over the first n rows, from row i on; the rows found
\* by find_all are the document's items, in document order
RECURSIVE PrimaryFrom(_, _, _)
PrimaryFrom(items, i, n) ==
    IF i >= n THEN <<>>
    ELSE ExtractRow(items, i) \o PrimaryFrom(items, i + 1, n)

\* lines 29-109
PrimaryScanResult(doc) ==
    PrimaryFrom(doc.items, 0, ScanLimit(chart_rows(doc)))

\* Mutant: the threshold test is <= instead of <.
NeedsFallback_inclusive(songs) == Len(songs) <= MinPrimary

\* line 112
NeedsFallback(songs) == Len(songs) < MinPrimary

(***************************************************************************)
(* Fallback strategy: scrape_billboard_alternative, lines 123-189          *)
(***************************************************************************)
\* The separator the markup puts between the elements of an item: a line
\* break ("block") or nothing ("inline"); items are on lines of their own.
Layouts == {"block", "inline"}

Separator(layout) == IF layout = "block" THEN <<"\n">> ELSE <<>>

RECURSIVE Join(_, _)
Join(texts, sep) ==
    IF Len(texts) = 0 THEN <<>>
    ELSE IF Len(texts) = 1 THEN texts[1]
    ELSE texts[1] \o sep \o Join(Tail(texts), sep)

\* get_text() of one item
ItemText(row, layout) ==
    LET els == Elements(row)
    IN  Join([k \in 1..Len(els) |-> els[k].text], Separator(layout))

\* line 132: [line.strip() for line in text.split('\n') if line.strip()]
RECURSIVE StripLines(_)
StripLines(ls) ==
    IF Len(ls) = 0 THEN <<>>
    ELSE IF Len(strip(Head(ls))) = 0 THEN StripLines(Tail(ls))
    ELSE <<strip(Head(ls))>> \o StripLines(Tail(ls))

\* lines 131-132 for the items from r on
RECURSIVE LinesFrom(_, _, _)
LinesFrom(items, r, layout) ==
    IF r > Len(items) THEN <<>>
    ELSE StripLines(SplitLines(ItemText(items[r], layout)))
         \o LinesFrom(items, r + 1, layout)

get_text_lines(doc, layout) == LinesFrom(doc.items, 1, layout)

Window == 10

\* line 151
IsChartElement(line) == line \in ChartTokens \/ isdigit(line)

\* lines 155-157
LooksLikeTitle(line) ==
    /\ Len(line) > 3
    /\ ~startswith(line, HTTP)
    /\ \/ \E k \in 1..Len(line) : line[k] = "("
       \/ istitle(line)
       \/ AnyWordIsTitle(line)

\* lines 162-164
LooksLikeArtist(line) ==
    Len(line) > 2 /\ ~isdigit(line) /\ line \notin ChartTokens

\* lines 147-166: the look-ahead loop from 0-based index j, with the title
\* and the artist found so far (sequences of length 0 or 1)
RECURSIVE ScanWindow(_, _, _, _, _)
ScanWindow(lines, j, hi, title, artist) ==
    IF j >= hi THEN [song_title |-> title, artist |-> artist]
    ELSE LET line == lines[j + 1]
         IN  IF IsChartElement(line)
             THEN ScanWindow(lines, j + 1, hi, title, artist)
             ELSE IF Len(title) = 0 /\ LooksLikeTitle(line)
             THEN ScanWindow(lines, j + 1, hi, <<line>>, artist)
             ELSE IF Len(title) > 0 /\ Len(artist) = 0 /\ LooksLikeArtist(line)
             THEN [song_title |-> title, artist |-> <<line>>]
             ELSE ScanWindow(lines, j + 1, hi, title, artist)

\* line 140
IsAnchor(line, position) == isdigit(line) /\ int(line) = position

\* line 176
NextRank(position) == position + 1

\* Mutant: the index is advanced only where an entry is emitted or the
\* line is no anchor (i += 1 of line 178 moved into the if of line 168).
AltStep_no_advance(lines, st) ==
    LET line == lines[st.i + 1]
        adv  == [st EXCEPT !.i = st.i + 1]
    IN  IF isdigit(line) /\ ~IntParses(line) THEN adv
        ELSE IF ~IsAnchor(line, st.position) THEN adv
        ELSE LET w == ScanWindow(lines, st.i + 1,
                                 Min(st.i + Window, Len(lines)), <<>>, <<>>)
             IN  IF Len(w.song_title) = 0 THEN st
                 ELSE [i        |-> st.i + 1,
                       position |-> NextRank(st.position),
                       songs    |-> Append(st.songs,
                           [Position |-> st.position,
                            Song     |-> w.song_title[1],
                            Artist   |-> IF Len(w.artist) > 0
                                         THEN w.artist[1] ELSE NA,
                            LastWeek |-> NEW_])]

\* lines 138-183: one iteration of the while loop
AltStep(lines, st) ==
    LET line == lines[st.i + 1]
        adv  == [st EXCEPT !.i = st.i + 1]
    IN  IF isdigit(line) /\ ~IntParses(line) THEN adv
        ELSE IF ~IsAnchor(line, st.position) THEN adv
        ELSE LET w == ScanWindow(lines, st.i + 1,
                                 Min(st.i + Window, Len(lines)), <<>>, <<>>)
             IN  IF Len(w.song_title) = 0 THEN adv
                 ELSE [i        |-> st.i + 1,
                       position |-> NextRank(st.position),
                       songs    |-> Append(st.songs,
                           [Position |-> st.position,
                            Song     |-> w.song_title[1],
                            Artist   |-> IF Len(w.artist) > 0
                                         THEN w.artist[1] ELSE NA,
                            LastWeek |-> NEW_])]

\* line 137
AltContinues(lines, st) == st.i < Len(lines) /\ st.position <= TopN

RECURSIVE AltLoop(_, _)
AltLoop(lines, st) ==
    IF AltContinues(lines, st) THEN AltLoop(lines, AltStep(lines, st))
    ELSE st.songs

\* lines 127, 134-135
AltStart == [i |-> 0, position |-> 1, songs |-> <<>>]

\* lines 127-185
scrape_billboard_alternative(lines) == AltLoop(lines, AltStart)

(***************************************************************************)
(* Report rendering: create_html_table, lines 246-267                      *)
(***************************************************************************)
\* line 252: int() of a 'Last Week' that is a digit string but not decimal
TrendRaises(song) ==
    song.LastWeek # NEW_ /\ isdigit(song.LastWeek) /\ ~IntParses(song.LastWeek)

\* lines 247-267: the indicator shown in the Last Week column
Trend(song) ==
    IF song.LastWeek = NEW_ THEN "new"
    ELSE IF isdigit(song.LastWeek)
         THEN LET last_pos == int(song.LastWeek)
              IN  IF song.Position < last_pos THEN "up"
                  ELSE IF song.Position > last_pos THEN "down"
                  ELSE "same"
         ELSE "plain"

\* lines 226-312: one table row per entry
create_html_table(songs) ==
    [k \in 1..Len(songs) |->
        [Position |-> songs[k].Position, trend |-> Trend(songs[k])]]

RenderRaises(songs) == \E k \in 1..Len(songs) : TrendRaises(songs[k])

(***************************************************************************)
(* Delivery configuration: send_email, lines 338-349                       *)
(* An environment variable is a sequence of length 0 (unset) or 1 (its     *)
(* text).                                                                  *)
(***************************************************************************)
DefaultPort == <<"5", "8", "7">>

Unset == <<>>

EnvValues == {Unset, << <<>> >>, << <<"x">> >>}

PortValues == {Unset, << <<"2", "5">> >>, << <<>> >>}

Environments ==
    [SENDER_EMAIL : EnvValues, SENDER_PASSWORD : EnvValues,
     RECIPIENT_EMAIL : EnvValues, SMTP_PORT : PortValues]

\* os.getenv(name, default)
getenv(v, default) == IF v = Unset THEN default ELSE v[1]

\* truth value of os.getenv(name): None and '' are false
Truthy(v) == v # Unset /\ Len(v[1]) > 0

\* line 342: int(os.getenv('SMTP_PORT', '587')) raises ValueError
PortRaises(e) == ~IntParses(getenv(e.SMTP_PORT, DefaultPort))

\* line 344
ConfigComplete(e) ==
    Truthy(e.SENDER_EMAIL) /\ Truthy(e.SENDER_PASSWORD) /\ Truthy(e.RECIPIENT_EMAIL)

(***************************************************************************)
(* Input documents                                                         *)
(*                                                                         *)
(* A document has n chart items, n in 0..MaxRows.  Its items are regular   *)
(* (an h3 title and an artist label, all preceded by the item's rank label *)
(* when the page is "ranked"), except for at most one irregular item       *)
(* drawn from OddKinds.                                                    *)
(***************************************************************************)
MaxRows == 22

SongTitle == <<"T", "u", "m", " ", "H", "i">>

ArtistName == <<"A", "r", "i", "j", "i", "t">>

PaddedTitle == <<" ", "T", "u", "m", "\n", "\t", "H", "i", " ">>

Sup2 == <<"^2">>

RegularItem(r, ranked) ==
    IF ranked
    THEN [spans |-> <<str(r), ArtistName>>, title |-> <<SongTitle>>,
          hpos |-> 1, ppos |-> 1]
    ELSE [spans |-> <<ArtistName>>, title |-> <<SongTitle>>,
          hpos |-> 0, ppos |-> 0]

OddKinds == {"no_title", "na_title", "blank_title", "padded_title",
             "label_2", "label_sup", "lw_5", "lw_sup", "no_artist",
             "rank_only"}

OddItem(kind) ==
    CASE kind = "no_title" ->
           [spans |-> <<ArtistName>>, title |-> <<>>, hpos |-> 0, ppos |-> 0]
      [] kind = "na_title" ->
           [spans |-> <<ArtistName>>, title |-> <<NA>>, hpos |-> 0, ppos |-> 0]
      [] kind = "blank_title" ->
           [spans |-> <<ArtistName>>, title |-> << <<" ", "\n">> >>,
            hpos |-> 0, ppos |-> 0]
      [] kind = "padded_title" ->
           [spans |-> <<ArtistName>>, title |-> <<PaddedTitle>>,
            hpos |-> 0, ppos |-> 0]
      [] kind = "label_2" ->
           [spans |-> <<str(2), ArtistName>>, title |-> <<SongTitle>>,
            hpos |-> 1, ppos |-> 1]
      [] kind = "label_sup" ->
           [spans |-> <<Sup2, ArtistName>>, title |-> <<SongTitle>>,
            hpos |-> 1, ppos |-> 1]
      [] kind = "lw_5" ->
           [spans |-> <<ArtistName, LW, str(5)>>, title |-> <<SongTitle>>,
            hpos |-> 0, ppos |-> 0]
      [] kind = "lw_sup" ->
           [spans |-> <<ArtistName, LW, Sup2>>, title |-> <<SongTitle>>,
            hpos |-> 0, ppos |-> 0]
      [] kind = "no_artist" ->
           [spans |-> <<LW, str(7)>>, title |-> <<SongTitle>>,
            hpos |-> 0, ppos |-> 0]
      [] kind = "rank_only" ->
           [spans |-> <<str(1)>>, title |-> <<>>, hpos |-> 0, ppos |-> 0]

MakeDoc(n, ranked, matched, at, kind) ==
    [items   |-> [r \in 1..n |->
                     IF r = at THEN OddItem(kind) ELSE RegularItem(r, ranked)],
     matched |-> matched]

Documents ==
    {MakeDoc(n, ranked, matched, 0, "no_title") :
        n \in 0..MaxRows, ranked \in BOOLEAN, matched \in BOOLEAN}
    \cup
    UNION {{MakeDoc(n, ranked, matched, at, kind) :
               at \in 1..n, kind \in OddKinds, ranked \in BOOLEAN,
               matched \in BOOLEAN} : n \in 1..MaxRows}

FetchErrors == {"timeout", "connection", "http_status"}

\* Mutant: the except clause of line 119 returns a placeholder entry.
FetchFailureResult_placeholder ==
    <<[Position |-> 0, Song |-> NA, Artist |-> NA, LastWeek |-> NEW_]>>

\* line 121: what scrape_billboard_india returns when the fetch raised
FetchFailureResult == <<>>

\* Mutant: main does not test the list.
HasData_always(songs) == TRUE

\* line 392: if songs_data
HasData(songs) == Len(songs) > 0

\* Mutant: the exit(1) of line 410 is missing.
ExitCode_zero(ret) == 0

\* lines 406-410: exit(1) unless send_email returned True
ExitCode(ret) == IF ret = "True" THEN 0 ELSE 1

(***************************************************************************)
(* The process: main, lines 381-414                                        *)
(***************************************************************************)
VARIABLES
    pc,           \* where the process is
    soup,         \* the parsed document, <<>> before the fetch and after return
    songs_data,   \* scrape_billboard_india's list (the primary result)
    lines,        \* scrape_billboard_alternative's lines
    alt_called,   \* scrape_billboard_alternative has been invoked
    fetch,        \* "none", "ok" or the RequestException raised
    result,       \* the list scrape_billboard_india returned to main
    env,          \* the environment values send_email read, <<>> before
    html,         \* the table rows create_html_table rendered
    smtp,         \* the SMTP calls made so far, in order
    sent,         \* send_email: "none", "True", "False" or "raised"
    exit_status,  \* -1 while running
    log,          \* the kinds of diagnostic printed
    alt,          \* the fallback's loop state (i, position, songs_data) when
                  \* its loop is run one iteration at a time
    iters         \* the iterations of that loop made so far

vars == <<pc, soup, songs_data, lines, alt_called, fetch, result, env, html,
          smtp, sent, exit_status, log, alt, iters>>

Init ==
    /\ pc = "start"
    /\ soup = <<>>
    /\ songs_data = <<>>
    /\ lines = <<>>
    /\ alt_called = FALSE
    /\ fetch = "none"
    /\ result = <<>>
    /\ env = <<>>
    /\ html = <<>>
    /\ smtp = <<>>
    /\ sent = "none"
    /\ exit_status = -1
    /\ log = {}
    /\ alt = AltStart
    /\ iters = 0

\* lines 23-29: the page is fetched and parsed
FetchOk ==
    /\ pc = "start"
    /\ \E d \in Documents : soup' = <<d>>
    /\ fetch' = "ok"
    /\ pc' = "scan"
    /\ UNCHANGED <<alt, iters>>
    /\ UNCHANGED <<songs_data, lines, alt_called, result, env, html, smtp,
                   sent, exit_status, log>>

\* lines 23-24, 119-121: requests.get or raise_for_status raises
FetchFails ==
    /\ pc = "start"
    /\ \E e \in FetchErrors : fetch' = e
    /\ result' = FetchFailureResult
    /\ log' = log \cup {"fetch_error"}
    /\ pc' = "returned"
    /\ UNCHANGED <<alt, iters>>
    /\ UNCHANGED <<soup, songs_data, lines, alt_called, env, html, smtp, sent,
                   exit_status>>

\* lines 31-109: the loop over the first rows
PrimaryScan ==
    /\ pc = "scan"
    /\ songs_data' = PrimaryScanResult(soup[1])
    /\ pc' = "decide"
    /\ UNCHANGED <<alt, iters>>
    /\ UNCHANGED <<soup, lines, alt_called, fetch, result, env, html, smtp,
                   sent, exit_status, log>>

\* lines 116-117
ReturnPrimary ==
    /\ pc = "decide"
    /\ ~NeedsFallback(songs_data)
    /\ result' = songs_data
    /\ pc' = "returned"
    /\ UNCHANGED <<alt, iters>>
    /\ UNCHANGED <<soup, songs_data, lines, alt_called, fetch, env, html, smtp,
                   sent, exit_status, log>>

\* lines 112-114, 131-135: the fallback is called and reads the text
CallAlternative ==
    /\ pc = "decide"
    /\ NeedsFallback(songs_data)
    /\ \E layout \in Layouts : lines' = get_text_lines(soup[1], layout)
    /\ alt_called' = TRUE
    /\ pc' = "alt"
    /\ UNCHANGED <<alt, iters>>
    /\ UNCHANGED <<soup, songs_data, fetch, result, env, html, smtp, sent,
                   exit_status, log>>

\* lines 137-185, 114: the fallback scans the lines, its list is returned
AlternativeScan ==
    /\ pc = "alt"
    /\ result' = scrape_billboard_alternative(lines)
    /\ pc' = "returned"
    /\ UNCHANGED <<alt, iters>>
    /\ UNCHANGED <<soup, songs_data, lines, alt_called, fetch, env, html, smtp,
                   sent, exit_status, log>>

\* lines 390-392: main has the list, the scraper's frame is gone
MainSends ==
    /\ pc = "returned"
    /\ HasData(result)
    /\ pc' = "send_email"
    /\ soup' = <<>> /\ songs_data' = <<>> /\ lines' = <<>>
    /\ UNCHANGED <<alt, iters>>
    /\ UNCHANGED <<alt_called, fetch, result, env, html, smtp, sent,
                   exit_status, log>>

\* lines 411-414
MainNoData ==
    /\ pc = "returned"
    /\ ~HasData(result)
    /\ pc' = "exited"
    /\ exit_status' = 1
    /\ soup' = <<>> /\ songs_data' = <<>> /\ lines' = <<>>
    /\ log' = log \cup {"no_data"}
    /\ UNCHANGED <<alt, iters>>
    /\ UNCHANGED <<alt_called, fetch, result, env, html, smtp, sent>>

\* lines 338-349: the configuration is read and checked
SendEmailConfig ==
    /\ pc = "send_email"
    /\ \E e \in Environments :
         /\ env' = <<e>>
         /\ IF PortRaises(e)
            THEN /\ sent' = "raised" /\ pc' = "exited" /\ exit_status' = 1
                 /\ log' = log \cup {"traceback"}
            ELSE IF ~ConfigComplete(e)
            THEN /\ sent' = "False" /\ pc' = "send_returned"
                 /\ log' = log \cup {"missing_config"}
                 /\ UNCHANGED exit_status
            ELSE /\ pc' = "render"
                 /\ UNCHANGED <<sent, exit_status, log>>
    /\ UNCHANGED <<alt, iters>>
    /\ UNCHANGED <<soup, songs_data, lines, alt_called, fetch, result, html,
                   smtp>>

\* lines 353-363, 377-379: the message is built, rendering may raise
Render ==
    /\ pc = "render"
    /\ IF RenderRaises(result)
       THEN /\ sent' = "False" /\ pc' = "send_returned"
            /\ log' = log \cup {"send_error"}
            /\ UNCHANGED html
       ELSE /\ html' = create_html_table(result)
            /\ pc' = "connect"
            /\ UNCHANGED <<sent, log>>
    /\ UNCHANGED <<alt, iters>>
    /\ UNCHANGED <<soup, songs_data, lines, alt_called, fetch, result, env,
                   smtp, exit_status>>

\* One SMTP call of lines 367-372: it is made, and either succeeds or
\* raises, which line 377 turns into a False return.
SmtpCall(at, call, next) ==
    /\ pc = at
    /\ smtp' = Append(smtp, call)
    /\ \/ /\ pc' = next
          /\ UNCHANGED <<sent, log>>
       \/ /\ pc' = "send_returned"
          /\ sent' = "False"
          /\ log' = log \cup {"send_error"}
    /\ UNCHANGED <<alt, iters>>
    /\ UNCHANGED <<soup, songs_data, lines, alt_called, fetch, result, env,
                   html, exit_status>>

Connect  == SmtpCall("connect", "SMTP", "starttls")

StartTls == SmtpCall("starttls", "starttls", "login")

Login    == SmtpCall("login", "login", "sendmail")

Sendmail == SmtpCall("sendmail", "sendmail", "quit")

Quit     == SmtpCall("quit", "quit", "sent")

\* lines 374-375
SendEmailReturnsTrue ==
    /\ pc = "sent"
    /\ sent' = "True"
    /\ pc' = "send_returned"
    /\ UNCHANGED <<alt, iters>>
    /\ UNCHANGED <<soup, songs_data, lines, alt_called, fetch, result, env,
                   html, smtp, exit_status, log>>

\* lines 406-410 and the end of main
MainExit ==
    /\ pc = "send_returned"
    /\ exit_status' = ExitCode(sent)
    /\ pc' = "exited"
    /\ UNCHANGED <<alt, iters>>
    /\ UNCHANGED <<soup, songs_data, lines, alt_called, fetch, result, env,
                   html, smtp, sent, log>>

Next ==
    \/ FetchOk
    \/ FetchFails
    \/ PrimaryScan
    \/ ReturnPrimary
    \/ CallAlternative
    \/ AlternativeScan
    \/ MainSends
    \/ MainNoData
    \/ SendEmailConfig
    \/ Render
    \/ Connect
    \/ StartTls
    \/ Login
    \/ Sendmail
    \/ Quit
    \/ SendEmailReturnsTrue
    \/ MainExit

Spec == Init /\ [][Next]_vars

(***************************************************************************)
(* The fallback's loop, one iteration at a time                            *)
(*                                                                         *)
(* scrape_billboard_alternative is run on its own on a sequence of lines:  *)
(* every sequence of at most MaxLines lines over LineAlphabet, and the     *)
(* lines of the regular ranked pages of 0..MaxRows items.                  *)
(***************************************************************************)
MaxLines == 5

ShortLine == <<"a", "b", "c">>

LineAlphabet == {str(1), str(2), SongTitle, ShortLine, LW, Sup2}

AltInputs ==
    UNION {[1..n -> LineAlphabet] : n \in 0..MaxLines}
    \cup {get_text_lines(MakeDoc(n, TRUE, FALSE, 0, "no_title"), "block") :
             n \in 0..MaxRows}

\* lines 123-135: the fallback is entered with the lines of some page
InitAlt ==
    /\ pc = "alt"
    /\ lines \in AltInputs
    /\ alt = AltStart
    /\ iters = 0
    /\ alt_called = TRUE
    /\ fetch = "ok"
    /\ soup = <<>>
    /\ songs_data = <<>>
    /\ result = <<>>
    /\ env = <<>>
    /\ html = <<>>
    /\ smtp = <<>>
    /\ sent = "none"
    /\ exit_status = -1
    /\ log = {}

\* lines 137-183: one iteration of the while loop
AltIterate ==
    /\ pc = "alt"
    /\ AltContinues(lines, alt)
    /\ alt' = AltStep(lines, alt)
    /\ iters' = iters + 1
    /\ UNCHANGED <<pc, soup, songs_data, lines, alt_called, fetch, result, env,
                   html, smtp, sent, exit_status, log>>

\* lines 137, 185: the loop ends and the list is returned
AltReturn ==
    /\ pc = "alt"
    /\ ~AltContinues(lines, alt)
    /\ result' = alt.songs
    /\ pc' = "returned"
    /\ UNCHANGED <<soup, songs_data, lines, alt_called, fetch, env, html, smtp,
                   sent, exit_status, log, alt, iters>>

NextAlt ==
    \/ AltIterate
    \/ AltReturn

SpecAlt == InitAlt /\ [][NextAlt]_vars

(***************************************************************************)
(* Properties                                                              *)
(***************************************************************************)
Returned == pc = "returned" /\ fetch = "ok"

PrimaryReturned == Returned /\ ~alt_called

Rows == chart_rows(soup[1])

PositionsUnique(songs) ==
    \A a, b \in 1..Len(songs) : a # b => songs[a].Position # songs[b].Position

\* Row r (1-based) is dropped by the primary loop.
RowDropped(row) == LabelRaises(row) \/ Discarded(Normalize(ExtractTitle(row)))

\* Every explicit numeric rank label among the scanned rows is the row's
\* ordinal index.
LabelsAreOrdinals ==
    \A r \in 1..Min(Len(Rows), 20) :
        HasRankLabel(Rows[r]) /\ ~LabelRaises(Rows[r])
            => int(strip(Rows[r].spans[1])) = r

NoRowDropped == \A r \in 1..Min(Len(Rows), 20) : ~RowDropped(Rows[r])

\* C1: the list scrape_billboard_india returns, primary or fallback, never
\* holds more than 20 entries.
C1_AtMostTwenty == Len(result) <= 20 /\ Len(songs_data) <= 20

\* A document with more than 20 items yields exactly 20 entries.
C1_Witness ==
    Returned /\ Len(soup[1].items) > 20 /\ Len(result) = 20

\* C2: every returned entry has a 'Song' that is neither empty nor "N/A".
C2_TitlePresent ==
    \A k \in 1..Len(result) : Len(result[k].Song) > 0 /\ result[k].Song # NA

\* A primary result is returned although a scanned row had no usable title.
C2_Witness ==
    /\ PrimaryReturned
    /\ \E r \in 1..Min(Len(Rows), 20) :
           Discarded(Normalize(ExtractTitle(Rows[r])))
    /\ Len(result) > 0

\* C3 as stated: no two entries of a returned list share a 'Position'.
C3_PositionsUnique == Returned => PositionsUnique(result)

\* C3 amended: positions are pairwise distinct when the list comes from the
\* fallback, or from the primary strategy on a document whose explicit
\* numeric rank labels (among the first 20 rows) all equal the ordinal index
\* of their row.
C3_UniqueUnlessLabelDisagrees ==
    Returned /\ (alt_called \/ LabelsAreOrdinals) => PositionsUnique(result)

\* A primary result of rows that carry rank labels, one row dropped.
C3_Witness ==
    /\ PrimaryReturned
    /\ LabelsAreOrdinals
    /\ \E r \in 1..Min(Len(Rows), 20) : HasRankLabel(Rows[r])
    /\ \E r \in 1..Min(Len(Rows), 20) : RowDropped(Rows[r])
    /\ Len(result) >= 10

\* C4: after a successful fetch the returned list is the fallback's list on
\* the document's lines when the primary strategy collected fewer than 10
\* entries, and otherwise the primary list, the fallback not being invoked.
C4_FallbackPolicy ==
    Returned =>
        IF Len(songs_data) < 10
        THEN /\ alt_called
             /\ \E layout \in Layouts : lines = get_text_lines(soup[1], layout)
             /\ result = scrape_billboard_alternative(lines)
        ELSE ~alt_called /\ result = songs_data

\* The fallback's list is returned and differs from a non-empty primary list.
C4_Witness ==
    /\ Returned
    /\ alt_called
    /\ Len(songs_data) > 0
    /\ Len(result) > 0
    /\ result # songs_data

\* C5: the exit status is 0 iff the extraction returned a non-empty list and
\* send_email returned True, and 1 in every other case.
C5_ExitContract ==
    /\ exit_status \in {-1, 0, 1}
    /\ exit_status = -1 <=> pc # "exited"
    /\ pc = "exited" => (exit_status = 0 <=> (Len(result) > 0 /\ sent = "True"))

\* A run that exits after send_email failed on an SMTP call.
C5_Witness ==
    pc = "exited" /\ Len(result) > 0 /\ sent = "False" /\ Len(smtp) > 0

SendEmailCalled == env # <<>> \/ sent # "none" \/ Len(smtp) > 0 \/ Len(html) > 0

\* C6: after a failed fetch the list is empty, send_email is never called,
\* no SMTP call is made and the exit status is 1; send_email is only ever
\* called with a list of at least one entry.
C6_NoDeliveryWithoutData ==
    /\ fetch \in FetchErrors =>
           /\ Len(result) = 0
           /\ ~SendEmailCalled
           /\ pc = "exited" => exit_status = 1
    /\ (SendEmailCalled \/ pc = "send_email") => Len(result) >= 1

\* A run whose fetch failed has exited.
C6_Witness == fetch \in FetchErrors /\ pc = "exited"

\* C7 as stated: with a required value missing or empty, send_email returns
\* False, no SMTP call is made, and the process exits non-zero.
C7_MissingConfigReturnsFalse ==
    (env # <<>> /\ ~ConfigComplete(env[1])) =>
        /\ sent = "False"
        /\ Len(smtp) = 0
        /\ pc = "exited" => exit_status # 0

\* C8 as stated: the value returned on a fetch failure is never the value
\* returned for a document that was fetched.
C8_FailureDistinct == Returned => result # FetchFailureResult

\* C8 amended: a fetch failure returns the empty list, the value also
\* returned for a fetched document without entries; the two differ only in
\* the diagnostic printed.
C8_FailureIsEmptyList ==
    /\ fetch \in FetchErrors => Len(result) = 0 /\ "fetch_error" \in log
    /\ fetch \in {"none", "ok"} => "fetch_error" \notin log

\* The fetch has failed and scrape_billboard_india has returned.
C8_Witness == pc = "returned" /\ fetch \in FetchErrors

\* C9 as stated: the k-th entry of a returned primary result has position k.
C9_PrimaryConsecutive ==
    PrimaryReturned => \A k \in 1..Len(result) : result[k].Position = k

\* C9 amended: the k-th entry of a returned primary result has position k
\* provided none of the first 20 rows is dropped and every explicit numeric
\* rank label equals the ordinal index of its row.
C9_ConsecutiveIfNoneDropped ==
    PrimaryReturned /\ NoRowDropped /\ LabelsAreOrdinals
        => \A k \in 1..Len(result) : result[k].Position = k

\* A primary result of more than 20 rows, none dropped, without rank labels.
C9_Witness ==
    /\ PrimaryReturned
    /\ NoRowDropped
    /\ \A r \in 1..Min(Len(Rows), 20) : ~HasRankLabel(Rows[r])
    /\ Len(Rows) > 20

Rendering == env # <<>> /\ ~PortRaises(env[1]) /\ ConfigComplete(env[1])

\* C10 as stated: create_html_table gives every entry one of the four
\* indicators: "new" for "NEW", else "up", "down" or "same" as Position is
\* less than, greater than or equal to the decimal 'Last Week'.
C10_TrendOfEveryEntry ==
    Rendering /\ pc # "render" =>
        /\ Len(html) = Len(result)
        /\ \A k \in 1..Len(result) :
             LET e == result[k]
                 t == html[k].trend
             IN  /\ t \in {"new", "up", "down", "same"}
                 /\ e.LastWeek = NEW_ => t = "new"
                 /\ e.LastWeek # NEW_ /\ IntParses(e.LastWeek) =>
                      /\ e.Position < int(e.LastWeek) => t = "up"
                      /\ e.Position > int(e.LastWeek) => t = "down"
                      /\ e.Position = int(e.LastWeek) => t = "same"

\* C11: in the fallback the rank counter starts at 1 and grows only with an
\* emitted entry, so the k-th entry has position k, at most 20 entries are
\* emitted, each with previous position "NEW"; every iteration advances the
\* line index, so the loop makes at most one pass over the lines; the list
\* returned is the loop's list.
C11_FallbackRanks ==
    /\ alt.position = Len(alt.songs) + 1
    /\ Len(alt.songs) <= 20
    /\ \A k \in 1..Len(alt.songs) :
           alt.songs[k].Position = k /\ alt.songs[k].LastWeek = NEW_
    /\ iters = alt.i
    /\ alt.i <= Len(lines)
    /\ pc = "returned" =>
           result = alt.songs /\ result = scrape_billboard_alternative(lines)

\* The loop has returned one entry after passing an anchor, the last line,
\* that yielded no title.
C11_Witness ==
    /\ pc = "returned"
    /\ Len(result) = 1
    /\ Len(lines) > 0
    /\ lines[Len(lines)] = str(2)
    /\ iters = Len(lines)

\* C12 as stated: the 'Artist' of an entry of the primary strategy is never
\* a purely numeric text nor one of "LW", "PEAK", "WEEKS".
C12_ArtistIsNoLabel ==
    \A k \in 1..Len(songs_data) :
        ~isdigit(songs_data[k].Artist) /\ songs_data[k].Artist \notin NonArtistLabels

====
